---- MODULE Spec2Model ----
(***************************************************************************)
(* Model of vector_math_calculator.py: the VectorOps functions (lines      *)
(* 3-124) and the interactive driver main() (lines 140-338).               *)
(*                                                                         *)
(* Numbers are exact rationals <<n, d>> (d > 0, lowest terms): every value *)
(* the model draws is a small integer, on which float arithmetic is exact  *)
(* except for division, which the rationals keep exact as well.  Python    *)
(* lists are objects: a heap h is the sequence of the lists created so     *)
(* far and a reference is an index into it, so that "returns its argument" *)
(* and "returns a new list" are different outcomes.                        *)
(***************************************************************************)
EXTENDS Integers, Sequences, FiniteSets, TLC

VARIABLES
    \* one call of a VectorOps function
    op,        \* "idle", or the name of the function that was called
    pre,       \* the argument lists as they were when the call was made
    scalar,    \* the scalar argument of the call (Zero when it takes none)
    heap,      \* the lists that exist after the call; arguments are 1..Len(pre)
    result,    \* [exc, ref, val]: exception raised, list returned, scalar returned
    \* the driver main()
    pc,        \* "menu", "operands", "ask_continue", "terminated" ("off": no driver)
    selector,  \* what the selector prompt of the current iteration read
    choice,    \* <<n>> once int() gave the selector n in this iteration, else <<>>
    operands,  \* what the operand prompts of the current iteration read
    invoked,   \* the VectorOps functions main() called in the current iteration
    raised,    \* the exception raised inside the try block of the iteration
    printed,   \* what the iteration printed: "nothing", "Exiting", "Result", "Error"
    asked,     \* whether the continue prompt was shown in the current iteration
    iter,      \* number of completed iterations
    endReason  \* why the process ended ("running" while it has not)

libvars == <<op, pre, scalar, heap, result>>
mainvars == <<pc, selector, choice, operands, invoked, raised, printed, asked, iter, endReason>>
vars == <<op, pre, scalar, heap, result,
          pc, selector, choice, operands, invoked, raised, printed, asked, iter, endReason>>

----------------------------------------------------------------------------
(* Bounds of the model *)

MaxLen == 2       \* longest operand vector drawn (cross product draws 2..4)
MaxScalar == 2    \* scalars (eta, increment, s) are drawn from -MaxScalar..MaxScalar
MaxIter == 1      \* iterations the user may ask for after the first one

----------------------------------------------------------------------------
(* Exact arithmetic on the numbers of the program *)

Abs(n) == IF n < 0 THEN -n ELSE n

RECURSIVE GCD(_, _)
GCD(a, b) == IF b = 0 THEN a ELSE GCD(b, a % b)

Rat(n, d) ==
    LET g == GCD(Abs(n), Abs(d))
        s == IF d < 0 THEN -1 ELSE 1
    IN  <<(s * n) \div g, (s * d) \div g>>

Num(k) == <<k, 1>>
Zero == Num(0)

RAdd(x, y) == Rat(x[1] * y[2] + y[1] * x[2], x[2] * y[2])
RSub(x, y) == Rat(x[1] * y[2] - y[1] * x[2], x[2] * y[2])
RMul(x, y) == Rat(x[1] * y[1], x[2] * y[2])
RQuot(x, y) == Rat(x[1] * y[2], x[2] * y[1])       \* y # Zero
RLt(x, y) == x[1] * y[2] < y[1] * x[2]
RLe(x, y) == x[1] * y[2] <= y[1] * x[2]
RAbs(x) == <<Abs(x[1]), x[2]>>
\* Python's min(a, b) and max(a, b): the first argument wins a tie
RMin(x, y) == IF RLt(y, x) THEN y ELSE x
RMax(x, y) == IF RLt(x, y) THEN y ELSE x
RFloor(x) == Num(x[1] \div x[2])
RCeil(x) == Num(-((-x[1]) \div x[2]))
\* Python's round(): to the nearest integer, a tie to the even one
RRound(x) ==
    LET f == x[1] \div x[2]
        twice == 2 * (x[1] - f * x[2])
    IN  IF twice < x[2] THEN Num(f)
        ELSE IF twice > x[2] THEN Num(f + 1)
        ELSE IF f % 2 = 0 THEN Num(f) ELSE Num(f + 1)

IsSquare(n) == n >= 0 /\ \E r \in 0..n : r * r = n
ISqrt(n) == CHOOSE r \in 0..n : r * r = n
\* math.sqrt on the numbers whose root is a rational; the calls below are
\* drawn so that no other number reaches it
HasExactSqrt(x) == IsSquare(x[1]) /\ IsSquare(x[2])
RSqrt(x) == <<ISqrt(x[1]), ISqrt(x[2])>>
\* math.sin, math.cos, math.tan: uninterpreted
Sin(x) == <<"sin", x>>
Cos(x) == <<"cos", x>>
Tan(x) == <<"tan", x>>

RECURSIVE SumSeq(_)
\* sum(...) of a generator, starting from 0
SumSeq(s) == IF s = <<>> THEN Zero ELSE RAdd(SumSeq(SubSeq(s, 1, Len(s) - 1)), s[Len(s)])

----------------------------------------------------------------------------
(* Outcomes of a call *)

\* a result's ref is 0 when no list is returned, its val is <<>> when no scalar is

\* raise e
Raise(h, e) == [h |-> h, exc |-> e, ref |-> 0, val |-> <<>>]
\* return of a freshly built list
NewList(h, list) == [h |-> Append(h, list), exc |-> "none", ref |-> Len(h) + 1, val |-> <<>>]
\* return of an existing list object
SameList(h, r) == [h |-> h, exc |-> "none", ref |-> r, val |-> <<>>]
\* return of a scalar
Scalar(h, x) == [h |-> h, exc |-> "none", ref |-> 0, val |-> <<x>>]
\* a / b on floats
TrueDiv(h, a, b) == IF b = Zero THEN Raise(h, "ZeroDivisionError") ELSE Scalar(h, RQuot(a, b))
\* statement sequencing: an exception raised by r propagates, else rest goes on
Then(r, rest) == IF r.exc # "none" THEN r ELSE rest

----------------------------------------------------------------------------
(* The VectorOps functions.  h is the heap, vector parameters are references *)

vector_addition(h, v1, v2) ==
    IF Len(h[v1]) # Len(h[v2]) THEN Raise(h, "ValueError")
    ELSE NewList(h, [i \in 1..Len(h[v1]) |-> RAdd(h[v1][i], h[v2][i])])

\* mutant: the operands of the subtraction exchanged
vector_subtraction_reversed(h, v1, v2) ==
    IF Len(h[v1]) # Len(h[v2]) THEN Raise(h, "ValueError")
    ELSE NewList(h, [i \in 1..Len(h[v1]) |-> RSub(h[v2][i], h[v1][i])])

vector_subtraction(h, v1, v2) ==
    IF Len(h[v1]) # Len(h[v2]) THEN Raise(h, "ValueError")
    ELSE NewList(h, [i \in 1..Len(h[v1]) |-> RSub(h[v1][i], h[v2][i])])

scalar_multiplication(h, v, s) ==
    NewList(h, [i \in 1..Len(h[v]) |-> RMul(s, h[v][i])])

\* mutant: no length check; v2[i] beyond the end of v2 raises IndexError
dot_product_unchecked(h, v1, v2) ==
    IF Len(h[v2]) < Len(h[v1]) THEN Raise(h, "IndexError")
    ELSE Scalar(h, SumSeq([i \in 1..Len(h[v1]) |-> RMul(h[v1][i], h[v2][i])]))

dot_product(h, v1, v2) ==
    IF Len(h[v1]) # Len(h[v2]) THEN Raise(h, "ValueError")
    ELSE Scalar(h, SumSeq([i \in 1..Len(h[v1]) |-> RMul(h[v1][i], h[v2][i])]))

\* mutant: the equal-length check of the other functions instead of the
\* check for three dimensions
cross_product_equal_lengths(h, v1, v2) ==
    IF Len(h[v1]) # Len(h[v2]) THEN Raise(h, "ValueError")
    ELSE IF Len(h[v1]) < 3 THEN Raise(h, "IndexError")
    ELSE LET a == h[v1]
             b == h[v2]
         IN  NewList(h, << RSub(RMul(a[2], b[3]), RMul(a[3], b[2])),
                           RSub(RMul(a[3], b[1]), RMul(a[1], b[3])),
                           RSub(RMul(a[1], b[2]), RMul(a[2], b[1])) >>)

cross_product(h, v1, v2) ==
    IF Len(h[v1]) # 3 \/ Len(h[v2]) # 3 THEN Raise(h, "ValueError")
    ELSE LET a == h[v1]
             b == h[v2]
         IN  NewList(h, << RSub(RMul(a[2], b[3]), RMul(a[3], b[2])),
                           RSub(RMul(a[3], b[1]), RMul(a[1], b[3])),
                           RSub(RMul(a[1], b[2]), RMul(a[2], b[1])) >>)

vector_projection(h, v1, v2) ==
    IF Len(h[v1]) # Len(h[v2]) THEN Raise(h, "ValueError")
    ELSE LET dot_v1v2 == dot_product(h, v1, v2)
             mag_v2_squared == dot_product(h, v2, v2)
             quotient == TrueDiv(h, dot_v1v2.val[1], mag_v2_squared.val[1])
         IN  Then(dot_v1v2, Then(mag_v2_squared, Then(quotient,
                  scalar_multiplication(h, v2, quotient.val[1]))))

vector_reflection(h, v, normal) ==
    IF Len(h[v]) # Len(h[normal]) THEN Raise(h, "ValueError")
    ELSE LET dot_vn == dot_product(h, v, normal)
             dot_nn == dot_product(h, normal, normal)
             scalar_ == TrueDiv(h, RMul(Num(2), dot_vn.val[1]), dot_nn.val[1])
             scaled == scalar_multiplication(h, normal, scalar_.val[1])
         IN  Then(dot_vn, Then(dot_nn, Then(scalar_, Then(scaled,
                  vector_subtraction(scaled.h, v, scaled.ref)))))

\* mutant: k <= 0 taken for total internal reflection
vector_refraction_k_le_0(h, v, normal, eta) ==
    IF Len(h[v]) # Len(h[normal]) THEN Raise(h, "ValueError")
    ELSE LET dot_vn == dot_product(h, v, normal)
             d == dot_vn.val[1]
             k == RSub(Num(1), RMul(RMul(eta, eta), RSub(Num(1), RMul(d, d))))
             a == scalar_multiplication(h, v, eta)
             b == scalar_multiplication(a.h, normal, RAdd(RMul(eta, d), RSqrt(k)))
         IN  Then(dot_vn,
                  IF RLe(k, Zero)
                  THEN NewList(h, [i \in 1..Len(h[v]) |-> Zero])
                  ELSE Then(a, Then(b, vector_subtraction(b.h, a.ref, b.ref))))

vector_refraction(h, v, normal, eta) ==
    IF Len(h[v]) # Len(h[normal]) THEN Raise(h, "ValueError")
    ELSE LET dot_vn == dot_product(h, v, normal)
             d == dot_vn.val[1]
             k == RSub(Num(1), RMul(RMul(eta, eta), RSub(Num(1), RMul(d, d))))
             a == scalar_multiplication(h, v, eta)
             b == scalar_multiplication(a.h, normal, RAdd(RMul(eta, d), RSqrt(k)))
         IN  Then(dot_vn,
                  IF RLt(k, Zero)
                  THEN NewList(h, [i \in 1..Len(h[v]) |-> Zero])
                  ELSE Then(a, Then(b, vector_subtraction(b.h, a.ref, b.ref))))

\* mutant: the dot product taken with ng instead of n
vector_face_forward_uses_ng(h, n, i, ng) ==
    LET dot_ni == dot_product(h, ng, i)
    IN  Then(dot_ni,
             IF RLt(dot_ni.val[1], Zero) THEN SameList(h, i)
             ELSE scalar_multiplication(h, i, Num(-1)))

vector_face_forward(h, n, i, ng) ==
    LET dot_ni == dot_product(h, n, i)
    IN  Then(dot_ni,
             IF RLt(dot_ni.val[1], Zero) THEN SameList(h, i)
             ELSE scalar_multiplication(h, i, Num(-1)))

vector_scale(h, v, s) ==
    NewList(h, [i \in 1..Len(h[v]) |-> RMul(h[v][i], s)])

vector_distance(h, v1, v2) ==
    IF Len(h[v1]) # Len(h[v2]) THEN Raise(h, "ValueError")
    ELSE Scalar(h, RSqrt(SumSeq([i \in 1..Len(h[v1]) |->
                    RMul(RSub(h[v1][i], h[v2][i]), RSub(h[v1][i], h[v2][i]))])))

vector_length(h, v) ==
    Scalar(h, RSqrt(SumSeq([i \in 1..Len(h[v]) |-> RMul(h[v][i], h[v][i])])))

vector_absolute(h, v) ==
    NewList(h, [i \in 1..Len(h[v]) |-> RAbs(h[v][i])])

vector_minimum(h, v1, v2) ==
    IF Len(h[v1]) # Len(h[v2]) THEN Raise(h, "ValueError")
    ELSE NewList(h, [i \in 1..Len(h[v1]) |-> RMin(h[v1][i], h[v2][i])])

vector_maximum(h, v1, v2) ==
    IF Len(h[v1]) # Len(h[v2]) THEN Raise(h, "ValueError")
    ELSE NewList(h, [i \in 1..Len(h[v1]) |-> RMax(h[v1][i], h[v2][i])])

vector_floor(h, v) ==
    NewList(h, [i \in 1..Len(h[v]) |-> RFloor(h[v][i])])

vector_ceil(h, v) ==
    NewList(h, [i \in 1..Len(h[v]) |-> RCeil(h[v][i])])

\* the comprehension evaluates v[i] / increment component by component: the
\* first division raises, and with no component nothing is divided
vector_snap(h, v, increment) ==
    LET quot == [i \in 1..Len(h[v]) |-> TrueDiv(h, h[v][i], increment)]
    IN  IF \E i \in 1..Len(h[v]) : quot[i].exc # "none"
        THEN Raise(h, "ZeroDivisionError")
        ELSE NewList(h, [i \in 1..Len(h[v]) |-> RMul(RRound(quot[i].val[1]), increment)])

\* mutant: min and max exchanged
vector_wrap_min_max_exchanged(h, v, min_values, max_values) ==
    IF Len(h[v]) # Len(h[min_values]) \/ Len(h[v]) # Len(h[max_values])
    THEN Raise(h, "ValueError")
    ELSE NewList(h, [i \in 1..Len(h[v]) |->
                        RMax(RMin(h[v][i], h[min_values][i]), h[max_values][i])])

vector_wrap(h, v, min_values, max_values) ==
    IF Len(h[v]) # Len(h[min_values]) \/ Len(h[v]) # Len(h[max_values])
    THEN Raise(h, "ValueError")
    ELSE NewList(h, [i \in 1..Len(h[v]) |->
                        RMin(RMax(h[v][i], h[min_values][i]), h[max_values][i])])

vector_sin(h, v) ==
    NewList(h, [i \in 1..Len(h[v]) |-> Sin(h[v][i])])

vector_cos(h, v) ==
    NewList(h, [i \in 1..Len(h[v]) |-> Cos(h[v][i])])

vector_tan(h, v) ==
    NewList(h, [i \in 1..Len(h[v]) |-> Tan(h[v][i])])

----------------------------------------------------------------------------
(* Calls of the VectorOps functions on fresh argument lists *)

Values == {Num(-1), Num(0), Num(1)}
Vectors == UNION {[1..n -> Values] : n \in 0..MaxLen}
\* operands of the cross product: around the one dimension it accepts
CrossVectors == UNION {[1..n -> Values] : n \in 2..4}
Scalars == {Num(k) : k \in -MaxScalar..MaxScalar}

Dot(a, b) == SumSeq([i \in 1..Len(a) |-> RMul(a[i], b[i])])
SquaredDistance(a, b) == SumSeq([i \in 1..Len(a) |-> RMul(RSub(a[i], b[i]), RSub(a[i], b[i]))])
\* k of vector_refraction
Discriminant(v, normal, eta) ==
    RSub(Num(1), RMul(RMul(eta, eta), RSub(Num(1), RMul(Dot(v, normal), Dot(v, normal)))))

\* no call has been made yet
Idle == op = "idle"

\* the caller passes the lists args (references 1..Len(args)) and the scalar s,
\* and the call ends as r
Returned(name, args, s, r) ==
    /\ op' = name
    /\ pre' = args
    /\ scalar' = s
    /\ heap' = r.h
    /\ result' = [exc |-> r.exc, ref |-> r.ref, val |-> r.val]
    /\ UNCHANGED mainvars

Call_vector_addition ==
    /\ Idle
    /\ \E v1, v2 \in Vectors :
            Returned("vector_addition", <<v1, v2>>, Zero, vector_addition(<<v1, v2>>, 1, 2))

Call_vector_subtraction ==
    /\ Idle
    /\ \E v1, v2 \in Vectors :
            Returned("vector_subtraction", <<v1, v2>>, Zero, vector_subtraction(<<v1, v2>>, 1, 2))

Call_scalar_multiplication ==
    /\ Idle
    /\ \E v \in Vectors, s \in Scalars :
            Returned("scalar_multiplication", <<v>>, s, scalar_multiplication(<<v>>, 1, s))

Call_dot_product ==
    /\ Idle
    /\ \E v1, v2 \in Vectors :
            Returned("dot_product", <<v1, v2>>, Zero, dot_product(<<v1, v2>>, 1, 2))

Call_cross_product ==
    /\ Idle
    /\ \E v1, v2 \in CrossVectors :
            Returned("cross_product", <<v1, v2>>, Zero, cross_product(<<v1, v2>>, 1, 2))

Call_vector_projection ==
    /\ Idle
    /\ \E v1, v2 \in Vectors :
            Returned("vector_projection", <<v1, v2>>, Zero, vector_projection(<<v1, v2>>, 1, 2))

Call_vector_reflection ==
    /\ Idle
    /\ \E v, normal \in Vectors :
            Returned("vector_reflection", <<v, normal>>, Zero, vector_reflection(<<v, normal>>, 1, 2))

Call_vector_refraction ==
    /\ Idle
    /\ \E v, normal \in Vectors, eta \in Scalars :
            /\ Len(v) = Len(normal) =>
                  \/ RLt(Discriminant(v, normal, eta), Zero)
                  \/ HasExactSqrt(Discriminant(v, normal, eta))
            /\ Returned("vector_refraction", <<v, normal>>, eta,
                        vector_refraction(<<v, normal>>, 1, 2, eta))

Call_vector_face_forward ==
    /\ Idle
    /\ \E n, i, ng \in Vectors :
            Returned("vector_face_forward", <<n, i, ng>>, Zero,
                     vector_face_forward(<<n, i, ng>>, 1, 2, 3))

Call_vector_scale ==
    /\ Idle
    /\ \E v \in Vectors, s \in Scalars :
            Returned("vector_scale", <<v>>, s, vector_scale(<<v>>, 1, s))

Call_vector_distance ==
    /\ Idle
    /\ \E v1, v2 \in Vectors :
            /\ Len(v1) = Len(v2) => HasExactSqrt(SquaredDistance(v1, v2))
            /\ Returned("vector_distance", <<v1, v2>>, Zero, vector_distance(<<v1, v2>>, 1, 2))

Call_vector_length ==
    /\ Idle
    /\ \E v \in Vectors :
            /\ HasExactSqrt(Dot(v, v))
            /\ Returned("vector_length", <<v>>, Zero, vector_length(<<v>>, 1))

Call_vector_absolute ==
    /\ Idle
    /\ \E v \in Vectors :
            Returned("vector_absolute", <<v>>, Zero, vector_absolute(<<v>>, 1))

Call_vector_minimum ==
    /\ Idle
    /\ \E v1, v2 \in Vectors :
            Returned("vector_minimum", <<v1, v2>>, Zero, vector_minimum(<<v1, v2>>, 1, 2))

Call_vector_maximum ==
    /\ Idle
    /\ \E v1, v2 \in Vectors :
            Returned("vector_maximum", <<v1, v2>>, Zero, vector_maximum(<<v1, v2>>, 1, 2))

Call_vector_floor ==
    /\ Idle
    /\ \E v \in Vectors :
            Returned("vector_floor", <<v>>, Zero, vector_floor(<<v>>, 1))

Call_vector_ceil ==
    /\ Idle
    /\ \E v \in Vectors :
            Returned("vector_ceil", <<v>>, Zero, vector_ceil(<<v>>, 1))

Call_vector_snap ==
    /\ Idle
    /\ \E v \in Vectors, increment \in Scalars :
            Returned("vector_snap", <<v>>, increment, vector_snap(<<v>>, 1, increment))

Call_vector_wrap ==
    /\ Idle
    /\ \E v, min_values, max_values \in Vectors :
            Returned("vector_wrap", <<v, min_values, max_values>>, Zero,
                     vector_wrap(<<v, min_values, max_values>>, 1, 2, 3))

Call_vector_sin ==
    /\ Idle
    /\ \E v \in Vectors :
            Returned("vector_sin", <<v>>, Zero, vector_sin(<<v>>, 1))

Call_vector_cos ==
    /\ Idle
    /\ \E v \in Vectors :
            Returned("vector_cos", <<v>>, Zero, vector_cos(<<v>>, 1))

Call_vector_tan ==
    /\ Idle
    /\ \E v \in Vectors :
            Returned("vector_tan", <<v>>, Zero, vector_tan(<<v>>, 1))

\* vector_subtraction(vector_addition(a, b), b)
AddThenSubtract ==
    /\ Idle
    /\ \E a, b \in Vectors :
            Returned("add_then_subtract", <<a, b>>, Zero,
                     LET sum == vector_addition(<<a, b>>, 1, 2)
                     IN  Then(sum, vector_subtraction(sum.h, sum.ref, 2)))

Init ==
    /\ op = "idle"
    /\ pre = <<>>
    /\ scalar = Zero
    /\ heap = <<>>
    /\ result = [exc |-> "none", ref |-> 0, val |-> <<>>]
    /\ pc = "off"
    /\ selector = [kind |-> "none", text |-> <<>>]
    /\ choice = <<>>
    /\ operands = <<>>
    /\ invoked = <<>>
    /\ raised = "none"
    /\ printed = "nothing"
    /\ asked = FALSE
    /\ iter = 0
    /\ endReason = "running"

Next ==
    \/ Call_vector_addition
    \/ Call_vector_subtraction
    \/ Call_scalar_multiplication
    \/ Call_dot_product
    \/ Call_cross_product
    \/ Call_vector_projection
    \/ Call_vector_reflection
    \/ Call_vector_refraction
    \/ Call_vector_face_forward
    \/ Call_vector_scale
    \/ Call_vector_distance
    \/ Call_vector_length
    \/ Call_vector_absolute
    \/ Call_vector_minimum
    \/ Call_vector_maximum
    \/ Call_vector_floor
    \/ Call_vector_ceil
    \/ Call_vector_snap
    \/ Call_vector_wrap
    \/ Call_vector_sin
    \/ Call_vector_cos
    \/ Call_vector_tan
    \/ AddThenSubtract

Spec == Init /\ [][Next]_vars

----------------------------------------------------------------------------
(* Text: a line is a sequence of characters *)

Digits == <<"0", "1", "2", "3", "4", "5", "6", "7", "8", "9">>
IsDigit(c) == \E d \in 1..10 : Digits[d] = c
DigitValue(c) == (CHOOSE d \in 1..10 : Digits[d] = c) - 1

RECURSIVE Strip(_)
\* str.strip()
Strip(t) ==
    IF t = <<>> THEN t
    ELSE IF t[1] = " " THEN Strip(Tail(t))
    ELSE IF t[Len(t)] = " " THEN Strip(SubSeq(t, 1, Len(t) - 1))
    ELSE t

LowerChar(c) ==
    CASE c = "Y" -> "y" [] c = "E" -> "e" [] c = "S" -> "s"
      [] c = "N" -> "n" [] c = "O" -> "o" [] OTHER -> c
\* str.lower()
Lower(t) == [i \in 1..Len(t) |-> LowerChar(t[i])]

RECURSIVE Split(_)
\* str.split(","): the empty text gives one empty token
Split(t) ==
    IF \A i \in 1..Len(t) : t[i] # ","
    THEN <<t>>
    ELSE LET c == CHOOSE i \in 1..Len(t) : t[i] = "," /\ \A j \in 1..(i - 1) : t[j] # ","
         IN  <<SubSeq(t, 1, c - 1)>> \o Split(SubSeq(t, c + 1, Len(t)))

RECURSIVE DecimalValue(_)
DecimalValue(ds) ==
    IF ds = <<>> THEN 0
    ELSE 10 * DecimalValue(SubSeq(ds, 1, Len(ds) - 1)) + DigitValue(ds[Len(ds)])

\* int(t), and float(t) on the texts made of digits, signs, spaces, commas and
\* letters: surrounding spaces are dropped, one sign is allowed, and at least
\* one digit and nothing but digits must follow
ParseDecimal(t) ==
    LET s == Strip(t)
        signed == s # <<>> /\ s[1] \in {"-", "+"}
        ds == IF signed THEN Tail(s) ELSE s
    IN  IF ds = <<>> \/ \E i \in 1..Len(ds) : ~IsDigit(ds[i])
        THEN [ok |-> FALSE, val |-> 0]
        ELSE [ok |-> TRUE,
              val |-> IF signed /\ s[1] = "-" THEN -DecimalValue(ds) ELSE DecimalValue(ds)]

\* float(t)
ParseFloat(t) ==
    LET r == ParseDecimal(t)
    IN  [ok |-> r.ok, val |-> Num(r.val)]

\* list(map(float, t.split(",")))
ParseVector(t) ==
    LET toks == Split(t)
        fs == [i \in 1..Len(toks) |-> ParseFloat(toks[i])]
    IN  [ok |-> \A i \in 1..Len(toks) : fs[i].ok,
         val |-> [i \in 1..Len(toks) |-> fs[i].val]]

\* what one input() call gives: a line, end of input (EOFError) or Ctrl-C
\* (KeyboardInterrupt)
Line(t) == [kind |-> "line", text |-> t]
EndOfInput == [kind |-> "eof", text |-> <<>>]
Interrupt == [kind |-> "interrupt", text |-> <<>>]
\* the exception input() raises
InputError(in) ==
    CASE in.kind = "eof" -> "EOFError"
      [] in.kind = "interrupt" -> "KeyboardInterrupt"
      [] OTHER -> "none"

----------------------------------------------------------------------------
(* The driver main() *)

\* the if/elif chain of main(): the function each selector calls
DispatchTable ==
    << "vector_addition", "vector_subtraction", "scalar_multiplication", "dot_product",
       "cross_product", "vector_projection", "vector_reflection", "vector_refraction",
       "vector_face_forward", "vector_scale", "vector_distance", "vector_length",
       "vector_absolute", "vector_minimum", "vector_maximum", "vector_floor",
       "vector_ceil", "vector_snap", "vector_wrap", "vector_sin", "vector_cos",
       "vector_tan" >>

\* mutant: the branches of selectors 14 and 15 exchanged
OperationFor_14_15_exchanged(c) ==
    IF c = 14 THEN DispatchTable[15] ELSE IF c = 15 THEN DispatchTable[14] ELSE DispatchTable[c]

OperationFor(c) == DispatchTable[c]

\* the operand prompts of each selector, in order: "v" reads a vector, "s" a scalar
Prompts(c) ==
    CASE c \in {1, 2, 4, 5, 6, 7, 11, 14, 15} -> <<"v", "v">>
      [] c \in {3, 10, 18} -> <<"v", "s">>
      [] c = 8 -> <<"v", "v", "s">>
      [] c \in {9, 19} -> <<"v", "v", "v">>
      [] OTHER -> <<"v">>

\* the call main() makes: vs are the parsed vectors in prompt order, s the scalar
Apply(name, vs, s) ==
    CASE name = "vector_addition" -> vector_addition(vs, 1, 2)
      [] name = "vector_subtraction" -> vector_subtraction(vs, 1, 2)
      [] name = "scalar_multiplication" -> scalar_multiplication(vs, 1, s)
      [] name = "dot_product" -> dot_product(vs, 1, 2)
      [] name = "cross_product" -> cross_product(vs, 1, 2)
      [] name = "vector_projection" -> vector_projection(vs, 1, 2)
      [] name = "vector_reflection" -> vector_reflection(vs, 1, 2)
      [] name = "vector_refraction" -> vector_refraction(vs, 1, 2, s)
      [] name = "vector_face_forward" -> vector_face_forward(vs, 1, 2, 3)
      [] name = "vector_scale" -> vector_scale(vs, 1, s)
      [] name = "vector_distance" -> vector_distance(vs, 1, 2)
      [] name = "vector_length" -> vector_length(vs, 1)
      [] name = "vector_absolute" -> vector_absolute(vs, 1)
      [] name = "vector_minimum" -> vector_minimum(vs, 1, 2)
      [] name = "vector_maximum" -> vector_maximum(vs, 1, 2)
      [] name = "vector_floor" -> vector_floor(vs, 1)
      [] name = "vector_ceil" -> vector_ceil(vs, 1)
      [] name = "vector_snap" -> vector_snap(vs, 1, s)
      [] name = "vector_wrap" -> vector_wrap(vs, 1, 2, 3)
      [] name = "vector_sin" -> vector_sin(vs, 1)
      [] name = "vector_cos" -> vector_cos(vs, 1)
      [] name = "vector_tan" -> vector_tan(vs, 1)

\* the exception reading one operand raises
OperandError(kind, in) ==
    IF in.kind # "line" THEN InputError(in)
    ELSE IF kind = "v" /\ ~ParseVector(in.text).ok THEN "ValueError"
    ELSE IF kind = "s" /\ ~ParseFloat(in.text).ok THEN "ValueError"
    ELSE "none"

\* the operand prompts read ins one after the other: the first failure ends
\* the reading
ReadOperands(kinds, ins) ==
    LET failing == {k \in 1..Len(kinds) : OperandError(kinds[k], ins[k]) # "none"}
        first == CHOOSE k \in failing : \A j \in failing : k <= j
        vecs == {k \in 1..Len(kinds) : kinds[k] = "v"}
        nth(j) == CHOOSE k \in vecs : Cardinality({m \in vecs : m < k}) = j - 1
    IN  IF failing # {}
        THEN [exc |-> OperandError(kinds[first], ins[first]), read |-> SubSeq(ins, 1, first),
              vs |-> <<>>, s |-> Zero]
        ELSE [exc |-> "none", read |-> ins,
              vs |-> [j \in 1..Cardinality(vecs) |-> ParseVector(ins[nth(j)].text).val],
              s |-> IF kinds[Len(kinds)] = "s" THEN ParseFloat(ins[Len(kinds)].text).val
                    ELSE Zero]

\* the except clauses of the try block: ValueError, then Exception.
\* KeyboardInterrupt is no Exception
ExceptionClasses == {"ValueError", "ZeroDivisionError", "EOFError", "IndexError"}
\* mutant: the except Exception clause missing
CaughtByTry_ValueError_only(e) == e = "ValueError"

CaughtByTry(e) == e = "ValueError" \/ e \in ExceptionClasses

Uncaught(e) ==
    CASE e = "EOFError" -> "uncaught EOFError"
      [] e = "KeyboardInterrupt" -> "uncaught KeyboardInterrupt"
      [] OTHER -> "uncaught exception"

\* how the try block ends when e was raised in it ("none": it ran through)
TryEnds(e) ==
    IF e = "none" THEN [pc |-> "ask_continue", printed |-> "Result", endReason |-> "running"]
    ELSE IF CaughtByTry(e)
    THEN [pc |-> "ask_continue", printed |-> "Error", endReason |-> "running"]
    ELSE [pc |-> "terminated", printed |-> "nothing", endReason |-> Uncaught(e)]

\* the exception the selector part of the try block raises on input in
ChoiceError(in) ==
    IF in.kind # "line" THEN InputError(in)
    ELSE LET r == ParseDecimal(in.text)
         IN  IF ~r.ok THEN "ValueError"
             ELSE IF r.val = 0 THEN "none"
             ELSE IF r.val < 1 \/ r.val > 22 THEN "ValueError"
             ELSE "none"

IntText(n) == IF n < 10 THEN <<Digits[n + 1]>> ELSE <<Digits[(n \div 10) + 1], Digits[(n % 10) + 1]>>

SelectorInputs ==
    {Line(IntText(n)) : n \in 0..23}
        \cup {Line(<<"-", "1">>), Line(<<"x">>), Line(<<>>), Line(<<" ", "7", " ">>),
              EndOfInput, Interrupt}

OperandInputs ==
    {Line(<<"1", ",", "0">>), Line(<<"0", ",", "0">>), Line(<<"1">>), Line(<<"0">>),
     Line(<<"1", ",">>), EndOfInput, Interrupt}

ContinueInputs ==
    {Line(<<"y", "e", "s">>), Line(<<"Y", "E", "S">>), Line(<<" ", "y", "e", "s", " ">>),
     Line(<<"n", "o">>), Line(<<"y">>), Line(<<>>), EndOfInput, Interrupt}

InitMain ==
    /\ op = "idle"
    /\ pre = <<>>
    /\ scalar = Zero
    /\ heap = <<>>
    /\ result = [exc |-> "none", ref |-> 0, val |-> <<>>]
    /\ pc = "menu"
    /\ selector = [kind |-> "none", text |-> <<>>]
    /\ choice = <<>>
    /\ operands = <<>>
    /\ invoked = <<>>
    /\ raised = "none"
    /\ printed = "nothing"
    /\ asked = FALSE
    /\ iter = 0
    /\ endReason = "running"

\* choice = int(input(...)), the exit and the range check
EnterChoice ==
    /\ pc = "menu"
    /\ \E in \in SelectorInputs :
          LET e == ChoiceError(in)
              parsed == in.kind = "line" /\ ParseDecimal(in.text).ok
              c == ParseDecimal(in.text).val
              exits == parsed /\ c = 0
              ends == TryEnds(e)
          IN  /\ selector' = in
              /\ choice' = IF parsed THEN <<c>> ELSE <<>>
              /\ raised' = e
              /\ pc' = IF exits THEN "terminated" ELSE IF e = "none" THEN "operands" ELSE ends.pc
              /\ printed' = IF exits THEN "Exiting" ELSE IF e = "none" THEN "nothing" ELSE ends.printed
              /\ endReason' = IF exits THEN "exit" ELSE IF e = "none" THEN "running" ELSE ends.endReason
    /\ UNCHANGED <<operands, invoked, asked, iter>>
    /\ UNCHANGED libvars

\* the branch of the selector: its operand prompts, its call and its print
EnterOperands ==
    /\ pc = "operands"
    /\ \E ins \in [1..Len(Prompts(choice[1])) -> OperandInputs] :
          LET rd == ReadOperands(Prompts(choice[1]), ins)
              name == OperationFor(choice[1])
              e == IF rd.exc # "none" THEN rd.exc ELSE Apply(name, rd.vs, rd.s).exc
              ends == TryEnds(e)
          IN  /\ operands' = rd.read
              /\ invoked' = IF rd.exc # "none" THEN <<>> ELSE <<name>>
              /\ raised' = e
              /\ pc' = ends.pc
              /\ printed' = ends.printed
              /\ endReason' = ends.endReason
    /\ UNCHANGED <<selector, choice, asked, iter>>
    /\ UNCHANGED libvars

\* the continue prompt and its own try block, which catches KeyboardInterrupt only
AskContinue ==
    /\ pc = "ask_continue"
    /\ \E in \in ContinueInputs :
          LET again == in.kind = "line" /\ Lower(Strip(in.text)) = <<"y", "e", "s">>
          IN  /\ again => iter < MaxIter
              /\ IF again
                 THEN /\ pc' = "menu"
                      /\ selector' = [kind |-> "none", text |-> <<>>]
                      /\ choice' = <<>>
                      /\ operands' = <<>>
                      /\ invoked' = <<>>
                      /\ raised' = "none"
                      /\ printed' = "nothing"
                      /\ asked' = FALSE
                      /\ iter' = iter + 1
                      /\ endReason' = "running"
                 ELSE /\ pc' = "terminated"
                      /\ asked' = TRUE
                      /\ endReason' = CASE in.kind = "line" -> "declined"
                                        [] in.kind = "interrupt" -> "interrupted"
                                        [] OTHER -> Uncaught(InputError(in))
                      /\ UNCHANGED <<selector, choice, operands, invoked, raised, printed, iter>>
    /\ UNCHANGED libvars

NextMain ==
    \/ EnterChoice
    \/ EnterOperands
    \/ AskContinue

SpecMain == InitMain /\ [][NextMain]_vars

----------------------------------------------------------------------------
(* Properties of the VectorOps calls *)

\* the functions that compare the lengths of their first two parameters
\* (vector_face_forward through dot_product)
BinaryChecked ==
    {"vector_addition", "vector_subtraction", "dot_product", "vector_projection",
     "vector_reflection", "vector_refraction", "vector_distance", "vector_minimum",
     "vector_maximum", "vector_face_forward"}

Mismatched ==
    \/ op \in BinaryChecked /\ Len(pre[1]) # Len(pre[2])
    \/ op = "vector_wrap" /\ (Len(pre[1]) # Len(pre[2]) \/ Len(pre[1]) # Len(pre[3]))

\* the call raised e, returned nothing and built no list
RaisedOnly(e) ==
    /\ result.exc = e
    /\ result.ref = 0
    /\ result.val = <<>>
    /\ heap = pre

\* C1: a call of vector_addition, vector_subtraction, dot_product,
\* vector_projection, vector_reflection, vector_refraction, vector_distance,
\* vector_minimum, vector_maximum, vector_wrap or vector_face_forward (on n and
\* i) whose operands differ in length raises ValueError and returns no result:
\* no vector, no scalar, and no list was built.
C1_DimensionMismatch == Mismatched => RaisedOnly("ValueError")

C1_Witness ==
    /\ op = "vector_face_forward"
    /\ Len(pre[1]) # Len(pre[2])
    /\ Len(pre[2]) = Len(pre[3])
    /\ result.exc = "ValueError"

ReturnedVector == result.exc = "none" /\ result.ref # 0

\* C3: every call that returns a vector returns a list that is none of its
\* argument lists, and leaves every argument list as it was.
C3_FreshResult ==
    ReturnedVector =>
        /\ result.ref \notin 1..Len(pre)
        /\ \A k \in 1..Len(pre) : heap[k] = pre[k]

ZeroVector(n) == [i \in 1..n |-> Zero]
Kind(r) == IF r.exc = "none" THEN "returns" ELSE "raises"

\* a call that divides by zero: projection onto, or reflection about, a vector
\* v2 with dot(v2, v2) = 0 of the length of v1, or a snap to increment 0
DegenerateCall ==
    \/ op = "vector_projection" /\ Len(pre[1]) = Len(pre[2]) /\ Dot(pre[2], pre[2]) = Zero
    \/ op = "vector_reflection" /\ Len(pre[1]) = Len(pre[2]) /\ Dot(pre[2], pre[2]) = Zero
    \/ op = "vector_snap" /\ scalar = Zero

\* C4: vector_projection with dot(v2, v2) = 0, vector_reflection with
\* dot(normal, normal) = 0 and vector_snap with increment = 0 end the same way
\* (all raise, or all return a vector) on every v, the empty vector included:
\* a call that divides by zero ends as each of the three does on its v.
C4_UniformDegenerate ==
    DegenerateCall =>
        LET v == pre[1]
            z == ZeroVector(Len(v))
        IN  /\ Kind(result) = Kind(vector_projection(<<v, z>>, 1, 2))
            /\ Kind(result) = Kind(vector_reflection(<<v, z>>, 1, 2))
            /\ Kind(result) = Kind(vector_snap(<<v>>, 1, Zero))

\* C5: for v and normal of equal length and any eta, with
\* k = 1 - eta^2 * (1 - dot(v, normal)^2), vector_refraction raises nothing and
\* returns a vector of len(v) components: all zero when k < 0, and
\* eta*v[i] - (eta*dot(v, normal) + sqrt(k))*normal[i] when k >= 0.
\* (Checked on the operands whose k is negative or has a rational root.)
C5_Refraction ==
    (op = "vector_refraction" /\ Len(pre[1]) = Len(pre[2])) =>
        LET v == pre[1]
            normal == pre[2]
            d == Dot(v, normal)
            k == Discriminant(v, normal, scalar)
        IN  /\ ReturnedVector
            /\ Len(heap[result.ref]) = Len(v)
            /\ \A i \in 1..Len(v) :
                  heap[result.ref][i] =
                     IF RLt(k, Zero) THEN Zero
                     ELSE RSub(RMul(scalar, v[i]),
                               RMul(RAdd(RMul(scalar, d), RSqrt(k)), normal[i]))

C5_Witness ==
    /\ op = "vector_refraction"
    /\ Len(pre[1]) = Len(pre[2])
    /\ pre[1] # ZeroVector(Len(pre[1]))
    /\ RLt(Discriminant(pre[1], pre[2], scalar), Zero)
    /\ ReturnedVector
    /\ heap[result.ref] = ZeroVector(Len(pre[1]))

\* C6: for v, min_values, max_values of equal length with
\* min_values[i] <= max_values[i] at every i, vector_wrap returns a vector r of
\* that length with min_values[i] <= r[i] <= max_values[i], and r[i] = v[i]
\* wherever v[i] already lies in [min_values[i], max_values[i]].
C6_WrapClamps ==
    (/\ op = "vector_wrap"
     /\ Len(pre[1]) = Len(pre[2])
     /\ Len(pre[1]) = Len(pre[3])
     /\ \A i \in 1..Len(pre[1]) : RLe(pre[2][i], pre[3][i])) =>
        /\ ReturnedVector
        /\ Len(heap[result.ref]) = Len(pre[1])
        /\ \A i \in 1..Len(pre[1]) :
              /\ RLe(pre[2][i], heap[result.ref][i])
              /\ RLe(heap[result.ref][i], pre[3][i])
              /\ (RLe(pre[2][i], pre[1][i]) /\ RLe(pre[1][i], pre[3][i]))
                    => heap[result.ref][i] = pre[1][i]

C6_Witness ==
    /\ op = "vector_wrap"
    /\ Len(pre[1]) = 2 /\ Len(pre[2]) = 2 /\ Len(pre[3]) = 2
    /\ \A i \in 1..2 : RLe(pre[2][i], pre[3][i])
    /\ RLt(pre[3][1], pre[1][1])
    /\ RLt(pre[1][2], pre[2][2])
    /\ ReturnedVector
    /\ heap[result.ref] = <<pre[3][1], pre[2][2]>>

\* C7: cross_product raises ValueError and returns nothing whenever one of its
\* operands has a length other than 3 (also when both have the same such
\* length); on two operands of length 3 it returns
\* [v1[1]*v2[2] - v1[2]*v2[1], v1[2]*v2[0] - v1[0]*v2[2], v1[0]*v2[1] - v1[1]*v2[0]].
C7_CrossProduct ==
    op = "cross_product" =>
        IF Len(pre[1]) # 3 \/ Len(pre[2]) # 3
        THEN RaisedOnly("ValueError")
        ELSE LET a == [i \in 1..3 |-> pre[1][i][1]]
                 b == [i \in 1..3 |-> pre[2][i][1]]
             IN  /\ ReturnedVector
                 /\ heap[result.ref] = << Num(a[2] * b[3] - a[3] * b[2]),
                                          Num(a[3] * b[1] - a[1] * b[3]),
                                          Num(a[1] * b[2] - a[2] * b[1]) >>

C7_Witness ==
    /\ op = "cross_product"
    /\ Len(pre[1]) = Len(pre[2])
    /\ Len(pre[1]) # 3
    /\ RaisedOnly("ValueError")

\* C9: for a and b of equal length, vector_subtraction(vector_addition(a, b), b)
\* has the length of a and equals a elementwise.
C9_AddSubRoundTrip ==
    (op = "add_then_subtract" /\ Len(pre[1]) = Len(pre[2])) =>
        /\ ReturnedVector
        /\ Len(heap[result.ref]) = Len(pre[1])
        /\ \A i \in 1..Len(pre[1]) : heap[result.ref][i] = pre[1][i]

C9_Witness ==
    /\ op = "add_then_subtract"
    /\ Len(pre[1]) = 2 /\ Len(pre[2]) = 2
    /\ pre[1][1] # Zero
    /\ pre[2][2] # Zero
    /\ ReturnedVector
    /\ heap[result.ref] = pre[1]

\* C10: vector_face_forward(n, i, ng) depends on n and i only: for n and i of
\* equal length it returns the components of i when dot(n, i) < 0 and their
\* negation otherwise (also when dot(n, i) = 0), and with any other ng, of any
\* length, the call ends the same way: the same exception, or the same vector.
C10_FaceForwardIgnoresNg ==
    op = "vector_face_forward" =>
        /\ Len(pre[1]) = Len(pre[2]) =>
              /\ ReturnedVector
              /\ heap[result.ref] =
                    IF RLt(Dot(pre[1], pre[2]), Zero) THEN pre[2]
                    ELSE [k \in 1..Len(pre[2]) |-> Num(-(pre[2][k][1]))]
        /\ \A ng \in Vectors :
              LET r == vector_face_forward(<<pre[1], pre[2], ng>>, 1, 2, 3)
              IN  /\ r.exc = result.exc
                  /\ (r.ref = 0) = (result.ref = 0)
                  /\ r.ref # 0 => r.h[r.ref] = heap[result.ref]

C10_Witness ==
    /\ op = "vector_face_forward"
    /\ Len(pre[1]) = Len(pre[2])
    /\ Len(pre[3]) # Len(pre[2])
    /\ Dot(pre[1], pre[2]) = Zero
    /\ pre[2] # ZeroVector(Len(pre[2]))
    /\ ReturnedVector
    /\ heap[result.ref] # pre[2]

----------------------------------------------------------------------------
(* Properties of the driver *)

\* the exceptions that can be raised inside the try block: a malformed
\* selector or operand and a violated precondition (ValueError), a division by
\* zero, a prompt at the end of input (EOFError), a prompt interrupted
Failures == {"ValueError", "ZeroDivisionError", "EOFError", "KeyboardInterrupt"}

\* C2 as stated: whatever fails in an iteration, at the operation prompts or
\* at the continue prompt, is caught and reported, and the process ends only
\* because the user chose 0, did not answer yes, or interrupted the continue
\* prompt.
C2_NoFailureEndsTheProcess ==
    /\ raised \in Failures => printed = "Error"
    /\ pc = "terminated" => endReason \in {"exit", "declined", "interrupted"}

\* C2, amended: a ValueError, a ZeroDivisionError or an EOFError raised in the
\* try block is caught, "Error" is printed and the driver goes on to the
\* continue prompt; the process ends only because the user chose 0, did not
\* answer yes or interrupted the continue prompt, or by an exception nobody
\* catches: the EOFError of the continue prompt at the end of input, or the
\* KeyboardInterrupt of an interrupted selector or operand prompt.
C2_CaughtExceptForInputLoss ==
    /\ raised \in {"ValueError", "ZeroDivisionError", "EOFError"} =>
          /\ printed = "Error"
          /\ ~asked => pc = "ask_continue"
    /\ pc = "terminated" =>
          endReason \in {"exit", "declined", "interrupted",
                         "uncaught EOFError", "uncaught KeyboardInterrupt"}
    /\ endReason = "uncaught EOFError" => asked
    /\ endReason = "uncaught KeyboardInterrupt" => ~asked /\ raised = "KeyboardInterrupt"
    /\ raised = "KeyboardInterrupt" => pc = "terminated"

C2_Witness ==
    /\ invoked = <<"vector_snap">>
    /\ raised = "ZeroDivisionError"
    /\ printed = "Error"
    /\ pc = "ask_continue"

\* the menu main() prints: the operation each number stands for
MenuOperation ==
    << "vector_addition", "vector_subtraction", "scalar_multiplication", "dot_product",
       "cross_product", "vector_projection", "vector_reflection", "vector_refraction",
       "vector_face_forward", "vector_scale", "vector_distance", "vector_length",
       "vector_absolute", "vector_minimum", "vector_maximum", "vector_floor",
       "vector_ceil", "vector_snap", "vector_wrap", "vector_sin", "vector_cos",
       "vector_tan" >>

\* the selector is one of 1..22 and every operand prompt of its branch read a
\* text that parses
AllParsed ==
    /\ choice # <<>>
    /\ choice[1] \in 1..22
    /\ Len(operands) = Len(Prompts(choice[1]))
    /\ \A k \in 1..Len(operands) :
          /\ operands[k].kind = "line"
          /\ IF Prompts(choice[1])[k] = "v" THEN ParseVector(operands[k].text).ok
             ELSE ParseFloat(operands[k].text).ok

\* C8: in an iteration the driver calls exactly one VectorOps function, the
\* one the menu gives the selector, when the selector is in 1..22 and every
\* operand text parses; it calls none when the selector is 0, outside 0..22 or
\* no integer, or when an operand does not parse.  Selector 0 ends the loop at
\* once, and the continue prompt is not shown.
C8_OneCallPerIteration ==
    /\ AllParsed => invoked = <<MenuOperation[choice[1]]>>
    /\ ~AllParsed => invoked = <<>>
    /\ choice = <<0>> =>
          /\ pc = "terminated"
          /\ endReason = "exit"
          /\ ~asked

C8_Witness ==
    /\ choice = <<15>>
    /\ AllParsed
    /\ invoked = <<"vector_maximum">>
    /\ printed = "Result"
    /\ pc = "ask_continue"

====
